---- MODULE Spec2Model ----
(***************************************************************************)
(* AI Polyglot Friend (ai_friend_app.py): the global JSON store, its       *)
(* deduplication on save, the admin merge and the practice-prompt scorer,  *)
(* as a state machine over whole script runs.                              *)
(*                                                                         *)
(* Representation.  A Python str is a sequence of one-character strings;   *)
(* a Python dict whose iteration order matters (the top-level document,    *)
(* the users mapping) is a sequence of [k, v] pairs in insertion order;    *)
(* the other dicts (a user record, stats, an entry, custom_vocab) are      *)
(* functions whose DOMAIN is the set of keys present.  A JSON value that   *)
(* is not an object where a user record is expected is [notdict |-> ..].   *)
(* A score is <<>> for None and <<h>> for a float of h hundredths.         *)
(***************************************************************************)
EXTENDS Integers, Sequences, FiniteSets, TLC

VARIABLES
    file,          \* the backing file GLOBAL_FILE
    loaded,        \* "global_data" in st.session_state
    global_data,   \* st.session_state.global_data
    current_user,  \* st.session_state.current_user (NoUser when unset)
    mode,          \* the sidebar radio: "Chat" or "Admin"
    uploaded,      \* the admin file_uploader: <<>>, or <<doc>> with a document in it
    last,          \* history variable: what the last script run did
    reader         \* what the readers of the file beside a save have found

vars == <<file, loaded, global_data, current_user, mode, uploaded, last, reader>>

(***************************************************************************)
(* Strings                                                                 *)
(***************************************************************************)
Whitespace == {" ", "\t", "\n"}

\* str.lower() on the characters the model's inputs use
LowerOf == [c \in {"A", "B", "H", "O", "L", "Á", "É", "Ñ"} |->
              CASE c = "A" -> "a" [] c = "B" -> "b" [] c = "H" -> "h"
                [] c = "O" -> "o" [] c = "L" -> "l" [] c = "Á" -> "á"
                [] c = "É" -> "é" [] c = "Ñ" -> "ñ"]

Lower(s) == [i \in 1..Len(s) |-> IF s[i] \in DOMAIN LowerOf THEN LowerOf[s[i]] ELSE s[i]]

RECURSIVE LStrip(_)
LStrip(s) == IF s # <<>> /\ Head(s) \in Whitespace THEN LStrip(Tail(s)) ELSE s

RECURSIVE RStrip(_)
RStrip(s) ==
    IF s # <<>> /\ s[Len(s)] \in Whitespace THEN RStrip(SubSeq(s, 1, Len(s) - 1)) ELSE s

Strip(s) == RStrip(LStrip(s))

\* the table of normalize (line 46)
repl == [c \in {"á", "é", "í", "ó", "ú", "ñ", "ü"} |->
           CASE c = "á" -> "a" [] c = "é" -> "e" [] c = "í" -> "i" [] c = "ó" -> "o"
             [] c = "ú" -> "u" [] c = "ñ" -> "n" [] c = "ü" -> "u"]

\* normalize(s): fold the accents of the table, then lower(), then strip()
normalize(s) ==
    IF s = <<>> THEN <<>>
    ELSE Strip(Lower([i \in 1..Len(s) |-> IF s[i] \in DOMAIN repl THEN repl[s[i]] ELSE s[i]]))

(***************************************************************************)
(* difflib.SequenceMatcher(a, b).ratio(): no junk; autojunk needs a b of   *)
(* 200 or more elements.                                                   *)
(***************************************************************************)
SetMax(S) == CHOOSE x \in S : \A y \in S : y <= x
SetMin(S) == CHOOSE x \in S : \A y \in S : x <= y

\* the length of the longest common run that starts at a[i] and b[j]
RECURSIVE RunLen(_, _, _, _, _, _)
RunLen(a, b, i, j, ahi, bhi) ==
    IF i > ahi \/ j > bhi THEN 0
    ELSE IF a[i] # b[j] THEN 0
    ELSE 1 + RunLen(a, b, i + 1, j + 1, ahi, bhi)

\* find_longest_match on a[alo..ahi], b[blo..bhi] (1-based, inclusive): <<i, j, k>>
\* of the longest block, then the earliest in a, then the earliest in b
find_longest_match(a, b, alo, ahi, blo, bhi) ==
    LET run == [p \in (alo..ahi) \X (blo..bhi) |-> RunLen(a, b, p[1], p[2], ahi, bhi)]
        k == SetMax({run[p] : p \in DOMAIN run})
        i == SetMin({p[1] : p \in {q \in DOMAIN run : run[q] = k}})
        j == SetMin({p[2] : p \in {q \in DOMAIN run : run[q] = k /\ q[1] = i}})
    IN  <<i, j, k>>

\* the total size of get_matching_blocks()
RECURSIVE MatchCount(_, _, _, _, _, _)
MatchCount(a, b, alo, ahi, blo, bhi) ==
    IF alo > ahi \/ blo > bhi THEN 0
    ELSE LET m == find_longest_match(a, b, alo, ahi, blo, bhi)
         IN  IF m[3] = 0 THEN 0
             ELSE m[3] + MatchCount(a, b, alo, m[1] - 1, blo, m[2] - 1)
                       + MatchCount(a, b, m[1] + m[3], ahi, m[2] + m[3], bhi)

\* ratio() = 2.0 * matches / (len(a) + len(b)), 1.0 for two empty strings, kept
\* as the fraction <<numerator, denominator>>
Ratio(a, b) ==
    IF Len(a) + Len(b) = 0 THEN <<1, 1>>
    ELSE <<2 * MatchCount(a, b, 1, Len(a), 1, Len(b)), Len(a) + Len(b)>>

fuzzy_ratio(a, b) == Ratio(normalize(a), normalize(b))

score_answer(user_text, target) == fuzzy_ratio(user_text, target)

\* score >= 0.65 (line 305): 0.65 = 13/20, and the float quotient is the
\* correctly rounded fraction, so the comparison is that of the fractions
IsCorrect(score) == 20 * score[1] >= 13 * score[2]

\* round(score, 2) in hundredths; a tie is k/8, exact in binary, and goes to even
Round2(score) ==
    LET n == 100 * score[1]
        q == n \div score[2]
        r == n % score[2]
    IN  IF 2 * r > score[2] THEN q + 1
        ELSE IF 2 * r < score[2] THEN q
        ELSE IF q % 2 = 0 THEN q ELSE q + 1

(***************************************************************************)
(* Python values                                                           *)
(***************************************************************************)
\* d.get(k, default) on a dict kept as a function
Get(d, k, default) == IF k \in DOMAIN d THEN d[k] ELSE default

\* x or y on strings
OrStr(x, y) == IF x = <<>> THEN y ELSE x

\* None and "" for a value kept as an atom (a name, a language code, a timestamp)
NoneAtom == "None"
Falsy(x) == x = NoneAtom \/ x = ""
OrAtom(x, y) == IF Falsy(x) THEN y ELSE x

\* lst[-n:]
LastN(lst, n) == IF Len(lst) <= n THEN lst ELSE SubSeq(lst, Len(lst) - n + 1, Len(lst))

\* a dict whose order matters: a sequence of [k, v] in insertion order
Keys(d) == {d[i].k : i \in 1..Len(d)}
Has(d, k) == k \in Keys(d)
Lookup(d, k) == d[CHOOSE i \in 1..Len(d) : d[i].k = k].v
Put(d, k, v) ==
    IF Has(d, k) THEN [i \in 1..Len(d) |-> IF d[i].k = k THEN [k |-> k, v |-> v] ELSE d[i]]
    ELSE Append(d, [k |-> k, v |-> v])
Del(d, k) == SelectSeq(d, LAMBDA p : p.k # k)

\* whether a JSON value is an object (has .get)
IsDict(v) == "notdict" \notin DOMAIN v

\* datetime.utcnow().isoformat() + "Z" (line 41): the value is never compared
\* with another reading of the clock, so every reading is the one token
now_iso == "now"

(***************************************************************************)
(* Deduplication (lines 100-135)                                           *)
(***************************************************************************)
HistoryKeep == 500
RecentKeep == 200

vocab_native(it) == Strip(OrStr(Get(it, "native", <<>>), <<>>))
vocab_target(it) == Strip(OrStr(OrStr(Get(it, "target", <<>>), Get(it, "correct_answer", <<>>)), <<>>))
vocab_topic(it) == Strip(OrStr(Get(it, "topic", <<>>), <<>>))
vocab_level(it) == IF Get(it, "level", 0) = 0 THEN 1 ELSE it.level

\* vocab_key gone wrong: the level is left out of the key
vocab_key_nolevel(it) ==
    <<normalize(vocab_native(it)), normalize(vocab_target(it)), vocab_topic(it), 1>>

\* key = (normalize(native), normalize(target), topic, level)  (line 109)
vocab_key(it) ==
    <<normalize(vocab_native(it)), normalize(vocab_target(it)), vocab_topic(it), vocab_level(it)>>

\* the dict appended to unique (line 112)
vocab_out(it) ==
    [native |-> vocab_native(it), target |-> vocab_target(it), topic |-> vocab_topic(it),
     level |-> vocab_level(it), last_used |-> OrAtom(Get(it, "last_used", NoneAtom), now_iso)]

\* the loop of lines 103-112: keep the first entry of each key
RECURSIVE vocab_unique(_, _, _)
vocab_unique(vlist, seen, unique) ==
    IF vlist = <<>> THEN unique
    ELSE LET it == Head(vlist)
             key == vocab_key(it)
         IN  IF key \in seen THEN vocab_unique(Tail(vlist), seen, unique)
             ELSE vocab_unique(Tail(vlist), seen \cup {key}, Append(unique, vocab_out(it)))

turn_u(turn) == Strip(OrStr(OrStr(Get(turn, "your", <<>>), Get(turn, "user", <<>>)), <<>>))
turn_a(turn) == Strip(OrStr(OrStr(Get(turn, "ai", <<>>), Get(turn, "reply", <<>>)), <<>>))
turn_l(turn, mem) == OrAtom(OrAtom(Get(turn, "lang", NoneAtom), Get(mem, "lang", NoneAtom)), "")

\* key = (normalize(u), normalize(a), l)  (line 120)
turn_key(turn, mem) == <<normalize(turn_u(turn)), normalize(turn_a(turn)), turn_l(turn, mem)>>

\* the dict appended to unique (line 123)
turn_out(turn) ==
    [when |-> OrAtom(Get(turn, "when", NoneAtom), now_iso),
     prompt |-> OrStr(Get(turn, "prompt", <<>>), <<>>),
     your |-> turn_u(turn),
     target |-> OrStr(Get(turn, "target", <<>>), <<>>),
     score |-> Get(turn, "score", <<>>)]

\* the loop of lines 115-123: a turn is kept when no earlier turn has its key
history_unique(hist, mem) ==
    LET keys == [i \in 1..Len(hist) |-> turn_key(hist[i], mem)]
        fresh(i) == \A j \in 1..(i - 1) : keys[j] # keys[i]
        kept == SelectSeq([i \in 1..Len(hist) |-> i], fresh)
    IN  [n \in 1..Len(kept) |-> turn_out(hist[kept[n]])]

\* lines 102-113: mem["custom_vocab"][lang] = unique for every language present
dedup_vocab(mem) ==
    IF "custom_vocab" \notin DOMAIN mem THEN mem
    ELSE [mem EXCEPT !.custom_vocab =
             [lang \in DOMAIN mem.custom_vocab |-> vocab_unique(mem.custom_vocab[lang], {}, <<>>)]]

\* line 124: mem["conversation_history"] = unique[-500:]
history_trim(unique) == LastN(unique, HistoryKeep)

\* lines 115-124; the key is set even when it was absent
dedup_history(mem) ==
    LET unique == history_unique(Get(mem, "conversation_history", <<>>), mem)
    IN  [k \in DOMAIN mem \cup {"conversation_history"} |->
            IF k = "conversation_history" THEN history_trim(unique) ELSE mem[k]]

\* line 126: mem["stats"].get("recent", [])[-200:]
recent_trim(recent) == LastN(recent, RecentKeep)

\* deduplicate_user(mem): [ok, mem]; ok is FALSE when it raises, and mem is then
\* the record as mutated in place up to the raise (AttributeError on a value
\* that is no dict, KeyError on a record without "stats")
deduplicate_user(mem) ==
    LET trim(m2) ==
            IF "stats" \notin DOMAIN m2 THEN [ok |-> FALSE, mem |-> m2]
            ELSE [ok |-> TRUE,
                  mem |-> [m2 EXCEPT !.stats =
                             [k \in DOMAIN m2.stats \cup {"recent"} |->
                                IF k = "recent" THEN recent_trim(Get(m2.stats, "recent", <<>>))
                                ELSE m2.stats[k]]]]
    IN  IF ~IsDict(mem) THEN [ok |-> FALSE, mem |-> mem]
        ELSE trim(dedup_history(dedup_vocab(mem)))

\* the loop of lines 132-133 from user i on: stops at the first raise
RECURSIVE dedup_users(_, _)
dedup_users(users, i) ==
    LET rest(ok, users2) ==
            IF ok THEN dedup_users(users2, i + 1) ELSE [ok |-> FALSE, users |-> users2]
        store(r) == rest(r.ok, [users EXCEPT ![i] = [k |-> users[i].k, v |-> r.mem]])
    IN  IF i > Len(users) THEN [ok |-> TRUE, users |-> users]
        ELSE store(deduplicate_user(users[i].v))

\* deduplicate_global(data): [ok, data]; data is the store as mutated in place
deduplicate_global(data) ==
    LET done(r) == [ok |-> r.ok, data |-> Put(data, "users", r.users)]
    IN  done(dedup_users(IF Has(data, "users") THEN Lookup(data, "users") ELSE <<>>, 1))

(***************************************************************************)
(* The store and the backing file (lines 70-97)                            *)
(***************************************************************************)
\* d[k] = v on a dict kept as a function
SetKey(d, k, v) == [x \in DOMAIN d \cup {k} |-> IF x = k THEN v ELSE d[x]]

default_user ==
    [name |-> NoneAtom, lang |-> "es", level |-> 1,
     stats |-> [correct |-> 0, wrong |-> 0, recent |-> <<>>],
     custom_vocab |-> <<>>, conversation_history |-> <<>>]

EmptyStore == <<[k |-> "users", v |-> <<>>]>>

\* The file is absent, or holds the text of a document: all of it, or, while a
\* writer is between open(.., "w") and the end of json.dump, none or a part of it.
NoFile == [exists |-> FALSE, doc |-> <<>>, written |-> "none"]
FileOf(doc) == [exists |-> TRUE, doc |-> doc, written |-> "all"]

\* json.load succeeds on a complete text only
Parses(f) == f.exists /\ f.written = "all"

\* The Python type of the value json.load makes of a complete text: "dict" for
\* what save_global writes, where f.doc is the dict.  A file of another hand may
\* hold any JSON value: f.type is then "list" (f.doc the elements, [str |-> s]
\* or [num |-> n]), "str" (f.doc the characters), "int", "bool" or "NoneType",
\* and f.users is the type of the value under "users" of a dict that has one.
json_type(f) == Get(f, "type", "dict")
users_type(f) == Get(f, "users", "dict")

FileJson(type, doc, users) ==
    [exists |-> TRUE, doc |-> doc, written |-> "all", type |-> type, users |-> users]

UsersStr == <<"u","s","e","r","s">>

\* "users" not in data (line 86): [ok, has]; a key of a dict, an element of a
\* list, a substring of a str, and a TypeError on a value that is no container
users_in(type, doc) ==
    CASE type = "dict" -> [ok |-> TRUE, has |-> Has(doc, "users")]
      [] type = "list" -> [ok |-> TRUE, has |-> \E i \in 1..Len(doc) : doc[i] = [str |-> UsersStr]]
      [] type = "str" ->
            [ok |-> TRUE,
             has |-> \E i \in 1..Len(doc) : i + 4 <= Len(doc) /\ SubSeq(doc, i, i + 4) = UsersStr]
      [] OTHER -> [ok |-> FALSE, has |-> FALSE]

\* What a call returns or raises: the exception raised ("none" when it returns),
\* the value returned, its Python type, and the type of its "users" value
\* ("none" when it has no such key).
Returned(data, type, users) == [exc |-> "none", data |-> data, type |-> type, users |-> users]
Raised(exc) == [exc |-> exc, data |-> <<>>, type |-> "none", users |-> "none"]

\* lines 83-88, the body of the try
load_try(f) ==
    LET shape(has) ==
            IF ~has.ok THEN Raised("TypeError")
            ELSE IF ~has.has
                 THEN Returned(<<[k |-> "users", v |-> f.doc]>>, "dict", json_type(f))
                 ELSE Returned(f.doc, json_type(f),
                               IF json_type(f) = "dict" THEN users_type(f) ELSE "none")
    IN  IF ~Parses(f) THEN Raised("JSONDecodeError") ELSE shape(users_in(json_type(f), f.doc))

\* except Exception (line 89): every exception the body can raise is one
ExceptionClasses == {"JSONDecodeError", "TypeError"}

\* lines 81-91 as a call: the outcome with the exception that escapes, if any
load_call(f) ==
    LET handle(r) ==
            IF r.exc \in ExceptionClasses THEN Returned(EmptyStore, "dict", "dict") ELSE r
    IN  IF f.exists THEN handle(load_try(f)) ELSE Returned(EmptyStore, "dict", "dict")

\* load_global(): the value returned
load_global(f) == load_call(f).data

\* save_global(data) with the file f: [ok, data, file]; when deduplicate_global
\* raises the file is not opened
save_global(data, f) ==
    LET dump(r) == [ok |-> r.ok, data |-> r.data, file |-> IF r.ok THEN FileOf(r.data) ELSE f]
    IN  dump(deduplicate_global(data))

Users(g) == Lookup(g, "users")
PutUser(g, uname, mem) == Put(g, "users", Put(Users(g), uname, mem))

(***************************************************************************)
(* A script run: rs = [g, f, ok, writes] is the in-memory store, the file, *)
(* whether the run is still going (no uncaught exception so far) and the   *)
(* documents save_global has written during the run.                       *)
(***************************************************************************)
RunStart(g, f) == [g |-> g, f |-> f, ok |-> TRUE, writes |-> <<>>]

Raise(rs) == [rs EXCEPT !.ok = FALSE]

\* a call of save_global(global_data) in a run
Save(rs) ==
    LET saved(r) == [g |-> r.data, f |-> r.file, ok |-> r.ok,
                     writes |-> IF r.ok THEN Append(rs.writes, r.data) ELSE rs.writes]
    IN  IF ~rs.ok THEN rs ELSE saved(save_global(rs.g, rs.f))

\* lines 429-430: the save that ends every run that got that far
FinalSave(rs) == Save(rs)

(***************************************************************************)
(* Seed prompts (lines 53-67)                                              *)
(***************************************************************************)
SEED ==
    [es |-> <<
        [native |-> <<"h","e","l","l","o">>,
         target |-> <<"h","o","l","a">>,
         topic |-> <<"g","r","e","e","t">>, level |-> 1],
        [native |-> <<"h","o","w"," ","a","r","e"," ","y","o","u","?">>,
         target |-> <<"¿","c","ó","m","o"," ","e","s","t","á","s","?">>,
         topic |-> <<"g","r","e","e","t">>, level |-> 1],
        [native |-> <<"i"," ","w","a","n","t"," ","w","a","t","e","r"," ","p","l","e","a","s","e">>,
         target |-> <<"q","u","i","e","r","o"," ","a","g","u","a"," ","p","o","r"," ","f","a","v","o","r">>,
         topic |-> <<"c","a","f","e">>, level |-> 1],
        [native |-> <<"w","h","e","r","e"," ","i","s"," ","t","h","e"," ","b","a","t","h","r","o","o","m","?">>,
         target |-> <<"¿","d","ó","n","d","e"," ","e","s","t","á"," ","e","l"," ","b","a","ñ","o","?">>,
         topic |-> <<"t","r","a","v","e","l">>, level |-> 1] >>,
     fr |-> <<
        [native |-> <<"h","e","l","l","o">>,
         target |-> <<"b","o","n","j","o","u","r">>,
         topic |-> <<"g","r","e","e","t">>, level |-> 1],
        [native |-> <<"i"," ","w","a","n","t"," ","w","a","t","e","r"," ","p","l","e","a","s","e">>,
         target |-> <<"j","e"," ","v","e","u","x"," ","d","e"," ","l","'","e","a","u",","," ","s","'","i","l"," ","v","o","u","s"," ","p","l","a","î","t">>,
         topic |-> <<"c","a","f","e">>, level |-> 1] >>,
     de |-> <<
        [native |-> <<"h","e","l","l","o">>,
         target |-> <<"h","a","l","l","o">>,
         topic |-> <<"g","r","e","e","t">>, level |-> 1] >>]

Misc == <<"m","i","s","c">>
TopicUser == <<"u","s","e","r">>

(***************************************************************************)
(* Learning helpers (lines 191-208)                                        *)
(***************************************************************************)
\* prompts of choose_prompt_for_user: the seeds of the language, then the
\* user's custom vocabulary of that language
prompts_for_user(user_mem) ==
    LET lang == Get(user_mem, "lang", "es")
        cv == Get(user_mem, "custom_vocab", <<>>)
        custom == IF lang \in DOMAIN cv THEN cv[lang] ELSE <<>>
    IN  (IF lang \in DOMAIN SEED THEN SEED[lang] ELSE <<>>)
        \o [i \in 1..Len(custom) |->
              [native |-> Get(custom[i], "native", <<>>), target |-> Get(custom[i], "target", <<>>),
               topic |-> Get(custom[i], "topic", Misc), level |-> Get(custom[i], "level", 1)]]

\* the prompts random.choice may return: the pool of the user's level or below,
\* or every prompt when that pool is empty
choose_prompt_for_user(user_mem) ==
    LET prompts == prompts_for_user(user_mem)
        level == Get(user_mem, "level", 1)
        pool == SelectSeq(prompts, LAMBDA p : p.level <= level)
        from == IF pool = <<>> THEN prompts ELSE pool
    IN  {from[i] : i \in 1..Len(from)}

\* user_mem.setdefault("custom_vocab", {}).setdefault(lang, []).append(ent)
append_vocab(user_mem, lang, ent) ==
    LET cv == Get(user_mem, "custom_vocab", <<>>)
        old == IF lang \in DOMAIN cv THEN cv[lang] ELSE <<>>
    IN  SetKey(user_mem, "custom_vocab", SetKey(cv, lang, Append(old, ent)))

add_attempt_to_vocab(user_mem, lang, user_ans, correct_ans, topic, level) ==
    append_vocab(user_mem, lang,
        [native |-> user_ans, target |-> correct_ans, topic |-> topic, level |-> level,
         last_used |-> now_iso])

(***************************************************************************)
(* Practice prompt: scoring and auto-level (lines 304-326)                 *)
(***************************************************************************)
RecentWindow == 20
AdjustMin == 6
MinLevel == 1
MaxLevel == 5

RECURSIVE Sum(_)
Sum(lst) == IF lst = <<>> THEN 0 ELSE Head(lst) + Sum(Tail(lst))

\* recent_update gone wrong: the list is not cut to its last 20
recent_update_uncut(recent, bit) == Append(recent, bit)

\* lines 314-315: append the outcome, keep the last 20
recent_update(recent, bit) == LastN(Append(recent, bit), RecentWindow)

\* level_adjust gone wrong: the level goes up whatever it is
level_adjust_uncapped(level, recent) ==
    IF Len(recent) >= AdjustMin
    THEN IF 5 * Sum(recent) >= 4 * Len(recent) THEN level + 1
         ELSE IF 2 * Sum(recent) <= Len(recent) /\ level > MinLevel THEN level - 1
         ELSE level
    ELSE level

\* lines 317-324; rate >= 0.8 is 5*sum >= 4*len and rate <= 0.5 is 2*sum <= len
level_adjust(level, recent) ==
    IF Len(recent) >= AdjustMin
    THEN IF 5 * Sum(recent) >= 4 * Len(recent) /\ level < MaxLevel THEN level + 1
         ELSE IF 2 * Sum(recent) <= Len(recent) /\ level > MinLevel THEN level - 1
         ELSE level
    ELSE level

\* line 326: the history entry of a scored attempt
attempt_turn(item, text, score) ==
    [when |-> now_iso, prompt |-> item.native, your |-> text, target |-> item.target,
     score |-> <<Round2(score)>>]

\* lines 305-326 on user_mem with the score of line 304: [ok, mem]; ok is FALSE
\* on the KeyError of a record without stats or without the counter, raised
\* before anything is changed
record_attempt(user_mem, text, item, score) ==
    LET correct == IsCorrect(score)
        counter == IF correct THEN "correct" ELSE "wrong"
    IN  IF "stats" \notin DOMAIN user_mem \/ counter \notin DOMAIN Get(user_mem, "stats", <<>>)
        THEN [ok |-> FALSE, mem |-> user_mem]
        ELSE LET m1 == [user_mem EXCEPT !.stats[counter] = @ + 1]
                 m2 == IF correct THEN m1
                       ELSE add_attempt_to_vocab(m1, Get(m1, "lang", "es"), text, item.target,
                                                 item.topic, Get(m1, "level", 1))
                 recent == recent_update(Get(m2.stats, "recent", <<>>), IF correct THEN 1 ELSE 0)
                 m3 == [m2 EXCEPT !.stats = SetKey(m2.stats, "recent", recent),
                                  !.level = level_adjust(m2.level, recent)]
             IN  [ok |-> TRUE,
                  mem |-> SetKey(m3, "conversation_history",
                                 Append(Get(m3, "conversation_history", <<>>),
                                        attempt_turn(item, text, score)))]

\* lines 304-326
score_attempt(user_mem, text, item) ==
    record_attempt(user_mem, text, item, score_answer(text, item.target))

(***************************************************************************)
(* Chat mode (lines 225-366)                                               *)
(***************************************************************************)
LangOptions == <<"es", "fr", "de", "it", "pt", "ja", "en">>
LangSet == {LangOptions[i] : i \in 1..Len(LangOptions)}

\* the sidebar widgets as the user left them in this run: a language or level
\* the user picked, or NoneAtom / 0 for a widget the user did not touch
Untouched == [lang |-> NoneAtom, level |-> 0]

\* lines 247-252: [rs, mem]; user_mem is the stored record itself when the user
\* is in the store, and then the three assignments change the store.  .index of
\* a language that is not an option and a slider value outside 1..5 raise.
chat_prelude(rs, uname, w) ==
    LET attached == Has(Users(rs.g), uname)
        mem0 == IF attached THEN Lookup(Users(rs.g), uname) ELSE default_user
        keep(m) == IF attached THEN PutUser(rs.g, uname, m) ELSE rs.g
    IN  IF ~IsDict(mem0) THEN [rs |-> Raise(rs), mem |-> mem0]
        ELSE LET m1 == SetKey(mem0, "name", OrAtom(Get(mem0, "name", NoneAtom), uname))
                 lang0 == Get(m1, "lang", "es")
                 level0 == Get(m1, "level", 1)
             IN  IF lang0 \notin LangSet
                 THEN [rs |-> Raise([rs EXCEPT !.g = keep(m1)]), mem |-> m1]
                 ELSE LET m2 == SetKey(m1, "lang", IF w.lang = NoneAtom THEN lang0 ELSE w.lang)
                      IN  IF level0 \notin MinLevel..MaxLevel
                          THEN [rs |-> Raise([rs EXCEPT !.g = keep(m2)]), mem |-> m2]
                          ELSE LET m3 == SetKey(m2, "level", IF w.level = 0 THEN level0 ELSE w.level)
                               IN  [rs |-> [rs EXCEPT !.g = keep(m3)], mem |-> m3]

\* lines 254-255 and 338-339: global_data["users"][uname] = user_mem; save_global
store_and_save(rs, uname, user_mem) == Save([rs EXCEPT !.g = PutUser(rs.g, uname, user_mem)])

\* "||" in text
RECURSIVE SepAt(_, _)
SepAt(text, i) ==
    IF i + 1 > Len(text) THEN 0
    ELSE IF text[i] = "|" /\ text[i + 1] = "|" THEN i ELSE SepAt(text, i + 1)

HasSep(text) == SepAt(text, 1) # 0

\* [p.strip() for p in text.split("||", 1)]
split_phrase(text) ==
    LET i == SepAt(text, 1)
    IN  <<Strip(SubSeq(text, 1, i - 1)), Strip(SubSeq(text, i + 2, Len(text)))>>

\* lines 280-281: the text a Submit works on, and whether it is rejected as empty
submit_text(user_text) == Strip(user_text)

\* add_custom_phrase gone wrong: the phrase is added with or without separator
add_custom_phrase_unchecked(rs, uname, user_mem, text) ==
    store_and_save(rs, uname,
        append_vocab(user_mem, Get(user_mem, "lang", "es"),
            [native |-> text, target |-> <<>>, topic |-> TopicUser,
             level |-> Get(user_mem, "level", 1), last_used |-> now_iso]))

\* lines 340-352: Add custom phrase
add_custom_phrase(rs, uname, user_mem, text) ==
    IF HasSep(text)
    THEN LET parts == split_phrase(text)
             ent == [native |-> parts[1], target |-> parts[2], topic |-> TopicUser,
                     level |-> Get(user_mem, "level", 1), last_used |-> now_iso]
         IN  store_and_save(rs, uname, append_vocab(user_mem, Get(user_mem, "lang", "es"), ent))
    ELSE rs

\* lines 294-339: Practice prompt with the prompt random.choice returned; when
\* there is no prompt the record is stored and saved all the same
practice_prompt(rs, uname, user_mem, text, item) ==
    LET store(r) == IF r.ok THEN store_and_save(rs, uname, r.mem) ELSE Raise(rs)
    IN  store(score_attempt(user_mem, text, item))

\* lines 353-356: Show stats reads user_mem['stats'] and saves
show_stats(rs, user_mem) == IF "stats" \in DOMAIN user_mem THEN Save(rs) ELSE Raise(rs)

(***************************************************************************)
(* Admin mode (lines 368-427)                                              *)
(***************************************************************************)
\* lines 373-385: the profile of the selected user is read with .get
admin_prelude(rs, sel) ==
    IF Has(Users(rs.g), sel) /\ ~IsDict(Lookup(Users(rs.g), sel)) THEN Raise(rs) ELSE rs

\* lines 388-390
reset_user(rs, sel) == Save([rs EXCEPT !.g = PutUser(rs.g, sel, default_user)])

\* lines 392-394
delete_user(rs, sel) == Save([rs EXCEPT !.g = Put(rs.g, "users", Del(Users(rs.g), sel))])

\* lines 399-401: deduplicate_global, then save_global
dedup_all(rs) ==
    LET save(r) == IF r.ok THEN Save([rs EXCEPT !.g = r.data]) ELSE Raise([rs EXCEPT !.g = r.data])
    IN  save(deduplicate_global(rs.g))

\* merge_existing gone wrong: the incoming history replaces the old one
merge_existing_replace(existing, v) ==
    IF ~IsDict(existing) \/ ~IsDict(v) THEN [ok |-> FALSE, mem |-> existing]
    ELSE [ok |-> TRUE,
          mem |-> SetKey(existing, "conversation_history", Get(v, "conversation_history", <<>>))]

\* lines 414-417 for one user that is in the store: [ok, mem]
merge_existing(existing, v) ==
    IF ~IsDict(existing) THEN [ok |-> FALSE, mem |-> existing]
    ELSE LET e1 == SetKey(existing, "conversation_history", Get(existing, "conversation_history", <<>>))
         IN  IF ~IsDict(v) THEN [ok |-> FALSE, mem |-> e1]
             ELSE LET e2 == [e1 EXCEPT !.conversation_history = @ \o Get(v, "conversation_history", <<>>)]
                      vcv == Get(v, "custom_vocab", <<>>)
                      ecv == Get(e2, "custom_vocab", <<>>)
                      cv == [lang \in DOMAIN ecv \cup DOMAIN vcv |->
                               (IF lang \in DOMAIN ecv THEN ecv[lang] ELSE <<>>)
                               \o (IF lang \in DOMAIN vcv THEN vcv[lang] ELSE <<>>)]
                  IN  [ok |-> TRUE,
                       mem |-> IF DOMAIN vcv = {} THEN e2 ELSE SetKey(e2, "custom_vocab", cv)]

\* the loop of lines 409-417 from item i on: [ok, g]; it stops at the first raise
\* with the store as changed so far
RECURSIVE merge_items(_, _, _)
merge_items(g, items, i) ==
    LET rest(ok, g2) == IF ok THEN merge_items(g2, items, i + 1) ELSE [ok |-> FALSE, g |-> g2]
        store(k, r) == rest(r.ok, PutUser(g, k, r.mem))
        item(k, v) ==
            IF ~Has(Users(g), k) THEN merge_items(PutUser(g, k, v), items, i + 1)
            ELSE store(k, merge_existing(Lookup(Users(g), k), v))
    IN  IF i > Len(items) THEN [ok |-> TRUE, g |-> g] ELSE item(items[i].k, items[i].v)

\* rd.get("users", rd).items()
merge_source(rd) == IF Has(rd, "users") THEN Lookup(rd, "users") ELSE rd

merge_loop(g, rd) == merge_items(g, merge_source(rd), 1)

\* lines 405-421: the loop, then save_global, all inside try/except: whatever is
\* raised is caught and the run goes on with the store as changed so far
merge_upload(rs, rd) ==
    LET caught(s) == [s EXCEPT !.ok = TRUE]
        save(m) == IF m.ok THEN caught(Save([rs EXCEPT !.g = m.g])) ELSE [rs EXCEPT !.g = m.g]
    IN  IF ~rs.ok THEN rs ELSE save(merge_loop(rs.g, rd))

(***************************************************************************)
(* Inputs                                                                  *)
(***************************************************************************)
NoUser == NoneAtom
Usernames == {"alice", "bob"}

Hola == <<"h","o","l","a">>
Greet == <<"g","r","e","e","t">>

\* what the user types before Submit
UserTexts == {<<>>, <<" ">>, Hola, <<"a"," ","|","|"," ","B">>}

\* a record as an earlier version of the program or another tool wrote it: the
\* fields deduplicate_user reads besides the ones the program writes now
LegacyTurn(your, ai, when) ==
    [when |-> when, prompt |-> <<"h","e","l","l","o">>, user |-> your, ai |-> ai, lang |-> "es"]

\* a store the program has saved: alice after one wrong and one right answer
SavedDoc ==
    <<[k |-> "users", v |->
        <<[k |-> "alice", v |->
            [name |-> "alice", lang |-> "es", level |-> 1,
             stats |-> [correct |-> 1, wrong |-> 1, recent |-> <<0, 1>>],
             custom_vocab |-> [l \in {"es"} |->
                <<[native |-> <<"h","o","l","o">>, target |-> Hola, topic |-> Greet,
                   level |-> 1, last_used |-> "t1"]>>],
             conversation_history |->
                <<[when |-> "t1", prompt |-> <<"h","e","l","l","o">>, your |-> <<"h","o","l","o">>,
                   target |-> Hola, score |-> <<75>>],
                  [when |-> "t2", prompt |-> <<"h","e","l","l","o">>, your |-> Hola,
                   target |-> Hola, score |-> <<100>>]>>]]>>]>>

\* an export of another installation, {"users": {...}}: alice with legacy history
\* and vocabulary entries and a recent list of 21 outcomes
DocLegacy ==
    <<[k |-> "users", v |->
        <<[k |-> "alice", v |->
            [name |-> "alice", lang |-> "es", level |-> 2,
             stats |-> [correct |-> 21, wrong |-> 0, recent |-> [i \in 1..21 |-> 1]],
             custom_vocab |-> [l \in {"es"} |->
                <<[native |-> <<"A","d","i","ó","s">>, correct_answer |-> <<"b","y","e">>,
                   topic |-> Greet, level |-> 1, last_used |-> "t3"],
                  [native |-> <<"a","d","i","o","s"," ">>, target |-> <<"b","y","e">>,
                   topic |-> Greet, level |-> 1, last_used |-> "t4"]>>],
             conversation_history |->
                <<LegacyTurn(Hola, <<"x">>, "t3"), LegacyTurn(Hola, <<"y">>, "t4")>>]]>>]>>

\* a bare {username: record} upload whose second record is a string, and whose
\* first has history only
DocBad ==
    <<[k |-> "alice", v |-> [conversation_history |-> <<LegacyTurn(<<"s","í">>, <<"z">>, "t5")>>]],
      [k |-> "bob", v |-> [notdict |-> "oops"]]>>

UploadDocs == {DocLegacy, DocBad}

InitFiles == {NoFile, FileOf(SavedDoc)}

\* the action box (line 270)
Actions == {"Practice prompt", "Send message", "Add custom phrase", "Show stats"}

EditChoices == {[lang |-> "de", level |-> 0], [lang |-> NoneAtom, level |-> 3]}

(***************************************************************************)
(* The session: one action is one script run (with the rerun it asks for)  *)
(***************************************************************************)
\* The history variable last: the number of runs so far, the run's operation,
\* whether it ended without an uncaught exception, the store and the file at its
\* start, the documents it wrote, and, each as a sequence of none or one record,
\* the Submit it handled, the attempt it scored and the merge it made.
NoSubmit == <<>>
NoAttempt == <<>>
NoMerge == <<>>

Record(op, rs, submit, attempt, merge) ==
    [n |-> last.n + 1, op |-> op, ok |-> rs.ok, pre |-> global_data, preFile |-> file,
     writes |-> rs.writes, submit |-> submit, attempt |-> attempt, merge |-> merge]

\* the end of a run: the final save when nothing was raised, and the new state
EndRun(op, rs, submit, attempt, merge) ==
    LET end(fin) ==
            /\ global_data' = fin.g
            /\ file' = fin.f
            /\ last' = Record(op, fin, submit, attempt, merge)
    IN  end(FinalSave(rs))

\* a Submit whose handler was reached (the run got past the sidebar)
Submitted(action, user_text, rs) ==
    IF rs.ok THEN <<[action |-> action, user_text |-> user_text]>> ELSE NoSubmit

Init ==
    /\ file \in InitFiles
    /\ loaded = FALSE
    /\ global_data = EmptyStore
    /\ current_user = NoUser
    /\ mode = "Chat"
    /\ uploaded = <<>>
    /\ last = [n |-> 0, op |-> "none", ok |-> TRUE, pre |-> EmptyStore, preFile |-> file,
               writes |-> <<>>, submit |-> NoSubmit, attempt |-> NoAttempt, merge |-> NoMerge]
    /\ reader = <<>>

\* lines 215-216 and 430: the first run of the session loads the file
FirstRun ==
    /\ ~loaded
    /\ loaded' = TRUE
    /\ EndRun("FirstRun", RunStart(load_global(file), file), NoSubmit, NoAttempt, NoMerge)
    /\ UNCHANGED <<current_user, mode, uploaded, reader>>

\* the body of a Chat run in which no button is pressed
chat_view(rs, w) ==
    IF current_user = NoUser THEN rs ELSE chat_prelude(rs, current_user, w).rs

\* the body of an Admin run: the profile of sel, the button, then the upload
admin_button(rs, sel, button) ==
    LET press(r1) ==
            IF ~r1.ok THEN r1
            ELSE CASE button = "reset" -> reset_user(r1, sel)
                   [] button = "delete" -> delete_user(r1, sel)
                   [] button = "dedup" -> dedup_all(r1)
                   [] OTHER -> r1
    IN  press(IF Users(rs.g) = <<>> THEN rs ELSE admin_prelude(rs, sel))

\* the merge record of the run, for the history variable
merge_record(rs, up) ==
    LET made(m) == <<[pre |-> rs.g, file |-> rs.f, doc |-> up[1], post |-> m.g, ok |-> m.ok]>>
    IN  IF rs.ok /\ up # <<>> THEN made(merge_loop(rs.g, up[1])) ELSE NoMerge

AdminRun(op, sel, button, up) ==
    LET import(r2) ==
            EndRun(op, IF up # <<>> THEN merge_upload(r2, up[1]) ELSE r2,
                   NoSubmit, NoAttempt, merge_record(r2, up))
    IN  import(admin_button(RunStart(global_data, file), sel, button))

Selectable == IF Users(global_data) = <<>> THEN {NoUser} ELSE Keys(Users(global_data))
DefaultSel == IF Users(global_data) = <<>> THEN NoUser ELSE Users(global_data)[1].k

\* any interaction that presses no button: typing, choosing an action
Rerun ==
    /\ loaded
    /\ \/ /\ mode = "Chat"
          /\ EndRun("Rerun", chat_view(RunStart(global_data, file), Untouched), NoSubmit, NoAttempt, NoMerge)
       \/ /\ mode = "Admin"
          /\ \E sel \in Selectable : AdminRun("Rerun", sel, "none", uploaded)
    /\ UNCHANGED <<loaded, current_user, mode, uploaded, reader>>

\* the sidebar radio; a widget that is not drawn loses its state
SwitchMode ==
    /\ loaded
    /\ \/ /\ mode = "Admin"
          /\ mode' = "Chat"
          /\ EndRun("SwitchMode", chat_view(RunStart(global_data, file), Untouched), NoSubmit, NoAttempt, NoMerge)
       \/ /\ mode = "Chat"
          /\ mode' = "Admin"
          /\ AdminRun("SwitchMode", DefaultSel, "none", <<>>)
    /\ uploaded' = <<>>
    /\ UNCHANGED <<loaded, current_user, reader>>

\* lines 230-242: Load user, then the rerun it asks for
LoadUser(uname) ==
    /\ loaded /\ mode = "Chat"
    /\ LET create(rs) ==
               IF Has(Users(rs.g), uname) THEN rs
               ELSE Save([rs EXCEPT !.g = PutUser(rs.g, uname, SetKey(default_user, "name", uname))])
           rerun(r1) ==
               IF r1.ok
               THEN /\ current_user' = uname
                    /\ EndRun("LoadUser", chat_prelude(r1, uname, Untouched).rs, NoSubmit, NoAttempt, NoMerge)
               ELSE /\ current_user' = current_user
                    /\ EndRun("LoadUser", r1, NoSubmit, NoAttempt, NoMerge)
       IN  rerun(create(RunStart(global_data, file)))
    /\ UNCHANGED <<loaded, mode, uploaded, reader>>

\* a change of the language box or the level slider
EditProfile(w) ==
    /\ loaded /\ mode = "Chat" /\ current_user # NoUser
    /\ EndRun("EditProfile", chat_view(RunStart(global_data, file), w), NoSubmit, NoAttempt, NoMerge)
    /\ UNCHANGED <<loaded, current_user, mode, uploaded, reader>>

\* lines 253-256
SaveProfile ==
    /\ loaded /\ mode = "Chat" /\ current_user # NoUser
    /\ LET press(p) ==
               EndRun("SaveProfile",
                      IF p.rs.ok THEN store_and_save(p.rs, current_user, p.mem) ELSE p.rs,
                      NoSubmit, NoAttempt, NoMerge)
       IN  press(chat_prelude(RunStart(global_data, file), current_user, Untouched))
    /\ UNCHANGED <<loaded, current_user, mode, uploaded, reader>>

\* the Submit button is drawn for a signed-in user in Chat mode
CanSubmit == loaded /\ mode = "Chat" /\ current_user # NoUser

\* lines 272-282: Submit, whatever the action box says, with nothing typed and
\* nothing transcribed
SubmitEmpty(action, user_text) ==
    /\ CanSubmit
    /\ submit_text(user_text) = <<>>
    /\ LET submit(p) ==
               EndRun("SubmitEmpty", p.rs, Submitted(action, user_text, p.rs), NoAttempt, NoMerge)
       IN  submit(chat_prelude(RunStart(global_data, file), current_user, Untouched))
    /\ UNCHANGED <<loaded, current_user, mode, uploaded, reader>>

\* lines 284-293: Send message changes the view only
SendMessage(user_text) ==
    /\ CanSubmit
    /\ submit_text(user_text) # <<>>
    /\ LET submit(p) ==
               EndRun("SendMessage", p.rs, Submitted("Send message", user_text, p.rs),
                      NoAttempt, NoMerge)
       IN  submit(chat_prelude(RunStart(global_data, file), current_user, Untouched))
    /\ UNCHANGED <<loaded, current_user, mode, uploaded, reader>>

\* what the history variable keeps of a scored attempt: the user, the level and
\* the recent list before it, the answer, the prompt
attempt_record(user_mem, text, item) ==
    LET kept(r) ==
            IF r.ok
            THEN <<[user |-> current_user, level |-> user_mem.level,
                    recent |-> Get(user_mem.stats, "recent", <<>>), text |-> text, item |-> item]>>
            ELSE NoAttempt
    IN  kept(score_attempt(user_mem, text, item))

\* random.choice (line 201): any prompt of the pool, or, where natives names
\* some, one of the prompts with these natives
Drawn(pool, natives) == IF natives = {} THEN pool ELSE {it \in pool : it.native \in natives}

\* lines 294-339
Practice(user_text, natives) ==
    /\ CanSubmit
    /\ submit_text(user_text) # <<>>
    /\ LET text == submit_text(user_text)
           submit(p, sub) ==
               IF ~p.rs.ok THEN EndRun("PracticePrompt", p.rs, sub, NoAttempt, NoMerge)
               ELSE IF choose_prompt_for_user(p.mem) = {}
               THEN EndRun("PracticePrompt", store_and_save(p.rs, current_user, p.mem),
                           sub, NoAttempt, NoMerge)
               ELSE \E item \in Drawn(choose_prompt_for_user(p.mem), natives) :
                       EndRun("PracticePrompt", practice_prompt(p.rs, current_user, p.mem, text, item),
                              sub, attempt_record(p.mem, text, item), NoMerge)
           prelude(p) == submit(p, Submitted("Practice prompt", user_text, p.rs))
       IN  prelude(chat_prelude(RunStart(global_data, file), current_user, Untouched))
    /\ UNCHANGED <<loaded, current_user, mode, uploaded, reader>>

PracticePrompt(user_text) == Practice(user_text, {})

\* lines 340-352
AddCustomPhrase(user_text) ==
    /\ CanSubmit
    /\ submit_text(user_text) # <<>>
    /\ LET text == submit_text(user_text)
           submit(p) ==
               EndRun("AddCustomPhrase",
                      IF p.rs.ok THEN add_custom_phrase(p.rs, current_user, p.mem, text) ELSE p.rs,
                      Submitted("Add custom phrase", user_text, p.rs), NoAttempt, NoMerge)
       IN  submit(chat_prelude(RunStart(global_data, file), current_user, Untouched))
    /\ UNCHANGED <<loaded, current_user, mode, uploaded, reader>>

\* lines 353-356
ShowStats(user_text) ==
    /\ CanSubmit
    /\ submit_text(user_text) # <<>>
    /\ LET submit(p) ==
               EndRun("ShowStats", IF p.rs.ok THEN show_stats(p.rs, p.mem) ELSE p.rs,
                      Submitted("Show stats", user_text, p.rs), NoAttempt, NoMerge)
       IN  submit(chat_prelude(RunStart(global_data, file), current_user, Untouched))
    /\ UNCHANGED <<loaded, current_user, mode, uploaded, reader>>

\* lines 388-395 and 399-402: the admin buttons
AdminButton(button) ==
    /\ loaded /\ mode = "Admin"
    /\ button \in {"reset", "delete"} => Users(global_data) # <<>>
    /\ \E sel \in Selectable : AdminRun(button, sel, button, uploaded)
    /\ UNCHANGED <<loaded, current_user, mode, uploaded, reader>>

ResetUser == AdminButton("reset")
DeleteUser == AdminButton("delete")
DedupAll == AdminButton("dedup")

\* lines 404-421: a document is put in the uploader; it stays there, and is
\* merged again by every later Admin run, until the uploader is cleared
Upload(doc) ==
    /\ loaded /\ mode = "Admin"
    /\ uploaded' = <<doc>>
    /\ \E sel \in Selectable : AdminRun("Upload", sel, "none", <<doc>>)
    /\ UNCHANGED <<loaded, current_user, mode, reader>>

ClearUpload ==
    /\ loaded /\ mode = "Admin" /\ uploaded # <<>>
    /\ uploaded' = <<>>
    /\ \E sel \in Selectable : AdminRun("ClearUpload", sel, "none", <<>>)
    /\ UNCHANGED <<loaded, current_user, mode, reader>>

MaxRuns == 4

\* the session has runs left
Running == last.n < MaxRuns

Next ==
    \/ Running /\ FirstRun
    \/ Running /\ Rerun
    \/ Running /\ SwitchMode
    \/ \E uname \in Usernames : Running /\ LoadUser(uname)
    \/ \E w \in EditChoices : Running /\ EditProfile(w)
    \/ Running /\ SaveProfile
    \/ \E action \in Actions, user_text \in UserTexts : Running /\ SubmitEmpty(action, user_text)
    \/ \E user_text \in UserTexts : Running /\ SendMessage(user_text)
    \/ \E user_text \in UserTexts : Running /\ PracticePrompt(user_text)
    \/ \E user_text \in UserTexts : Running /\ AddCustomPhrase(user_text)
    \/ \E user_text \in UserTexts : Running /\ ShowStats(user_text)
    \/ Running /\ ResetUser
    \/ Running /\ DeleteUser
    \/ Running /\ DedupAll
    \/ \E doc \in UploadDocs : Running /\ Upload(doc)
    \/ Running /\ ClearUpload

Spec == Init /\ [][Next]_vars

(***************************************************************************)
(* Properties of the session                                               *)
(***************************************************************************)
\* the user records of the documents save_global wrote during the last run
SavedRecords ==
    UNION {{Users(last.writes[i])[j].v : j \in 1..Len(Users(last.writes[i]))} :
              i \in 1..Len(last.writes)}

\* the identity key of a stored vocabulary entry
VocabIdentity(e) == <<normalize(e.native), normalize(e.target), e.topic, e.level>>

\* the identity key of a stored history entry of record mem: the answer, the
\* ai/reply field, the language
HistoryIdentity(turn, mem) ==
    <<normalize(turn.your),
      normalize(OrStr(Get(turn, "ai", <<>>), Get(turn, "reply", <<>>))),
      OrAtom(Get(turn, "lang", NoneAtom), mem.lang)>>

NoDuplicateVocab(mem) ==
    \A lang \in DOMAIN mem.custom_vocab :
       \A i, j \in 1..Len(mem.custom_vocab[lang]) :
          i # j => VocabIdentity(mem.custom_vocab[lang][i]) # VocabIdentity(mem.custom_vocab[lang][j])

NoDuplicateHistory(mem) ==
    \A i, j \in 1..Len(mem.conversation_history) :
       i # j => HistoryIdentity(mem.conversation_history[i], mem)
                  # HistoryIdentity(mem.conversation_history[j], mem)

\* C1: after any save_global, no user's vocabulary list of any language and no
\* user's history list holds two entries with the same identity key.
C1_NoDuplicateKeysAfterSave ==
    \A mem \in SavedRecords : NoDuplicateVocab(mem) /\ NoDuplicateHistory(mem)

\* C2: after any save_global, every user's conversation history has at most 500
\* entries and every user's stats.recent at most 20.
C2_BoundsAfterSave ==
    \A mem \in SavedRecords :
       Len(mem.conversation_history) <= 500 /\ Len(mem.stats.recent) <= 20

\* the merge of the last run, when its loop (lines 409-417) ran to its end
MergeDone == last.merge # NoMerge /\ last.merge[1].ok

\* the fields a merge leaves alone: present or absent alike, and equal
SameField(a, b, k) == (k \in DOMAIN a <=> k \in DOMAIN b) /\ (k \in DOMAIN a => a[k] = b[k])

VocabOf(mem, lang) ==
    LET cv == Get(mem, "custom_vocab", <<>>) IN IF lang \in DOMAIN cv THEN cv[lang] ELSE <<>>

VocabLangs(mem) == DOMAIN Get(mem, "custom_vocab", <<>>)

\* C7: a merge, before the save that follows it: a user of the store named in
\* the document gets the incoming history after the old one and, per language,
\* the incoming vocabulary after the old one, with name, language, level and
\* stats as they were; a user not in the store is inserted as is; the other
\* users are unchanged.
C7_MergeAppends ==
    MergeDone =>
       LET pre == Users(last.merge[1].pre)
           post == Users(last.merge[1].post)
           incoming == merge_source(last.merge[1].doc)
       IN  /\ Keys(post) = Keys(pre) \cup Keys(incoming)
           /\ \A k \in Keys(pre) \ Keys(incoming) : Lookup(post, k) = Lookup(pre, k)
           /\ \A k \in Keys(incoming) \ Keys(pre) : Lookup(post, k) = Lookup(incoming, k)
           /\ \A k \in Keys(incoming) \cap Keys(pre) :
                 LET old == Lookup(pre, k)
                     new == Lookup(post, k)
                     v == Lookup(incoming, k)
                 IN  /\ new.conversation_history =
                           Get(old, "conversation_history", <<>>) \o Get(v, "conversation_history", <<>>)
                     /\ VocabLangs(new) = VocabLangs(old) \cup VocabLangs(v)
                     /\ \A lang \in VocabLangs(new) :
                           VocabOf(new, lang) = VocabOf(old, lang) \o VocabOf(v, lang)
                     /\ \A f \in {"name", "lang", "level", "stats"} : SameField(old, new, f)

\* C7's case: the document names a user of the store who has history and
\* vocabulary of her own, and brings her more of both
C7_Witness ==
    /\ MergeDone
    /\ \E k \in Keys(merge_source(last.merge[1].doc)) \cap Keys(Users(last.merge[1].pre)) :
          LET old == Lookup(Users(last.merge[1].pre), k)
              v == Lookup(merge_source(last.merge[1].doc), k)
          IN  /\ Get(old, "conversation_history", <<>>) # <<>>
              /\ Get(v, "conversation_history", <<>>) # <<>>
              /\ \E lang \in VocabLangs(old) \cap VocabLangs(v) :
                    VocabOf(old, lang) # <<>> /\ VocabOf(v, lang) # <<>>

\* the merge of the last run failed: its loop raised, or the save after it did
MergeFailed ==
    /\ last.merge # NoMerge
    /\ ~last.merge[1].ok \/ ~deduplicate_global(last.merge[1].post).ok

\* C8: a merge that fails partway leaves the store in memory and the file as
\* they were before it began, and the save that ends the run does not raise.
C8_FailedMergeKeepsStore ==
    MergeFailed =>
       /\ last.ok
       /\ global_data = last.merge[1].pre
       /\ file = last.merge[1].file

\* a text with no "||" in it
NoSeparator(text) == \A i \in 1..(Len(text) - 1) : ~(text[i] = "|" /\ text[i + 1] = "|")

\* a text of nothing but white space
Blank(text) == \A i \in 1..Len(text) : text[i] \in Whitespace

\* the last run handled a Submit whose input the program rejects
RejectedSubmit ==
    /\ last.submit # NoSubmit
    /\ \/ Blank(last.submit[1].user_text)
       \/ last.submit[1].action = "Add custom phrase" /\ NoSeparator(last.submit[1].user_text)

\* C9: a Submit with rejected input (Add custom phrase without "||", or an empty
\* text) leaves every user record in memory and the file as they were.
C9_RejectedSubmitChangesNothing ==
    RejectedSubmit => global_data = last.pre /\ file = last.preFile

\* C9's case: a phrase without separator is submitted by a user who has
\* vocabulary and history
C9_Witness ==
    /\ RejectedSubmit
    /\ ~Blank(last.submit[1].user_text)
    /\ Has(Users(global_data), current_user)
    /\ VocabLangs(Lookup(Users(global_data), current_user)) # {}
    /\ Get(Lookup(Users(global_data), current_user), "conversation_history", <<>>) # <<>>

(***************************************************************************)
(* deduplicate_global as a function: the store is drawn from DedupInputs   *)
(* and deduplicated again and again                                        *)
(***************************************************************************)
MaxVocab == 3
MaxTurns == 2
MaxPasses == 2

\* the sequences over S of length at most n
SeqUpTo(S, n) == UNION {[1..m -> S] : m \in 0..n}

Bye == <<"b","y","e">>

\* vocabulary entries as the program writes them and as older data has them:
\* the first three share a key (case, accent, spaces, correct_answer for
\* target, a missing level); the fourth differs from them in the level only
DedupVocab ==
    {[native |-> <<"A","d","i","ó","s">>, target |-> Bye, topic |-> Greet, level |-> 1, last_used |-> "t1"],
     [native |-> <<" ","a","d","i","o","s">>, correct_answer |-> Bye, topic |-> Greet, level |-> 1, last_used |-> "t2"],
     [native |-> <<"a","d","i","o","s">>, target |-> <<"B","y","e"," ">>, topic |-> Greet, last_used |-> "t3"],
     [native |-> <<"a","d","i","o","s">>, target |-> Bye, topic |-> Greet, level |-> 2, last_used |-> "t4"]}

\* history entries: as the program writes them, and with the fields of older data
DedupTurns ==
    {[when |-> "t1", prompt |-> <<"h","e","l","l","o">>, your |-> Hola, target |-> Hola, score |-> <<100>>],
     [when |-> "t2", prompt |-> <<"h","e","l","l","o">>, your |-> <<"H","o","l","a"," ">>, target |-> Bye, score |-> <<29>>],
     [when |-> "t3", user |-> Hola, ai |-> <<"x">>],
     [when |-> "t4", your |-> Hola, reply |-> <<"y">>, lang |-> "fr"]}

Digit == <<"0","1","2","3","4","5","6","7","8","9">>
Numeral(i) == <<Digit[((i \div 100) % 10) + 1], Digit[((i \div 10) % 10) + 1], Digit[(i % 10) + 1]>>

\* a record past both limits: 501 answers, all different, and 201 outcomes
LongRecord ==
    [name |-> "bob", lang |-> "es", level |-> 1,
     stats |-> [correct |-> 201, wrong |-> 0, recent |-> [i \in 1..(RecentKeep + 1) |-> i % 2]],
     custom_vocab |-> <<>>,
     conversation_history |->
        [i \in 1..(HistoryKeep + 1) |-> [when |-> "t0", your |-> Numeral(i), target |-> Hola, score |-> <<0>>]]]

DedupRecord(vs, hs) ==
    [name |-> "alice", lang |-> "es", level |-> 1,
     stats |-> [correct |-> 0, wrong |-> 0, recent |-> <<0, 1>>],
     custom_vocab |-> [l \in {"es"} |-> vs], conversation_history |-> hs]

DedupInputs ==
    {<<[k |-> "users", v |-> <<[k |-> "alice", v |-> DedupRecord(vs, hs)]>>]>> :
        vs \in SeqUpTo(DedupVocab, MaxVocab), hs \in SeqUpTo(DedupTurns, MaxTurns)}
    \cup {<<[k |-> "users", v |-> <<[k |-> "bob", v |-> LongRecord],
                                   [k |-> "alice", v |-> DedupRecord(<<>>, <<>>)]>>]>>}

InitDedup ==
    /\ global_data \in DedupInputs
    /\ file = NoFile
    /\ loaded = TRUE
    /\ current_user = NoUser
    /\ mode = "Admin"
    /\ uploaded = <<>>
    /\ last = [n |-> 0, op |-> "none", ok |-> TRUE, pre |-> global_data, preFile |-> file,
               writes |-> <<>>, submit |-> NoSubmit, attempt |-> NoAttempt, merge |-> NoMerge]
    /\ reader = <<>>

\* one more application of deduplicate_global to its own result
DedupPass ==
    /\ last.n < MaxPasses
    /\ LET pass(r) ==
               /\ global_data' = r.data
               /\ last' = [last EXCEPT !.n = @ + 1, !.op = "dedup", !.pre = global_data, !.ok = r.ok]
       IN  pass(deduplicate_global(global_data))
    /\ UNCHANGED <<file, loaded, current_user, mode, uploaded, reader>>

SpecDedup == InitDedup /\ [][DedupPass]_vars

\* C3: deduplicate_global is idempotent: applied to its own result it removes
\* no entry and changes no field.
C3_DedupIdempotent == (last.op = "dedup" /\ last.n >= 2) => global_data = last.pre

\* the identity key of a vocabulary entry as it comes in: native and target
\* normalized (correct_answer where there is no target), the topic, the level
\* (1 where there is none)
EntryIdentity(e) ==
    <<normalize(Get(e, "native", <<>>)),
      normalize(OrStr(Get(e, "target", <<>>), Get(e, "correct_answer", <<>>))),
      Get(e, "topic", <<>>),
      Get(e, "level", 1)>>

\* the positions of a list whose key no earlier position has
FirstOfKey(vlist) ==
    {i \in 1..Len(vlist) : \A j \in 1..(i - 1) : EntryIdentity(vlist[j]) # EntryIdentity(vlist[i])}

\* the n-th smallest element of a set of numbers
Nth(S, n) == CHOOSE x \in S : Cardinality({y \in S : y <= x}) = n

\* out is the entry in made: the same key, and the time stamp in came with
SurvivorOf(out, in) == EntryIdentity(out) = EntryIdentity(in) /\ out.last_used = in.last_used

\* C6: of the vocabulary entries of a user and language that share an identity
\* key exactly one survives deduplicate_user, the first in the original order;
\* entries with different keys all survive, in their original order.
C6_FirstOfEachKeySurvives ==
    last.op = "dedup" =>
       \A u \in 1..Len(Users(last.pre)) :
          \A lang \in VocabLangs(Users(last.pre)[u].v) :
             LET in == VocabOf(Users(last.pre)[u].v, lang)
                 out == VocabOf(Users(global_data)[u].v, lang)
             IN  /\ Len(out) = Cardinality(FirstOfKey(in))
                 /\ \A n \in 1..Len(out) : SurvivorOf(out[n], in[Nth(FirstOfKey(in), n)])

\* C6's case: three entries, the first and the last with one key and another
\* key between them; the first and the second survive, in this order
C6_Witness ==
    /\ last.op = "dedup" /\ last.n = 1
    /\ \E u \in 1..Len(Users(last.pre)) :
          LET in == VocabOf(Users(last.pre)[u].v, "es")
              out == VocabOf(Users(global_data)[u].v, "es")
          IN  /\ Len(in) = 3 /\ Len(out) = 2
              /\ EntryIdentity(in[1]) = EntryIdentity(in[3])
              /\ EntryIdentity(in[1]) # EntryIdentity(in[2])
              /\ in[1].last_used # in[3].last_used
              /\ out[1].last_used = in[1].last_used
              /\ out[2].last_used = in[2].last_used

(***************************************************************************)
(* Practice: alice signs in and answers "Hola" to prompt after prompt      *)
(***************************************************************************)
MaxAttempts == 10

Ones(n) == [i \in 1..n |-> 1]
Zeros(n) == [i \in 1..n |-> 0]

\* recent lists at the thresholds: below and at six elements, at the rates 0.5
\* and 0.8, between them, and twenty elements of which the oldest decides
LevelRecents ==
    {Ones(6), Zeros(6), Ones(5), Ones(4), <<0, 0, 0, 1, 1>>, <<1, 1, 1, 0, 0, 1>>,
     <<0>> \o Ones(15) \o Zeros(4)}

\* a file in which alice has the level and the recent list given, and has
\* answered all but two of the prompts the session has
LevelDoc(level, recent) ==
    <<[k |-> "users",
       v |-> <<[k |-> "alice",
                v |-> [name |-> "alice", lang |-> "es", level |-> level,
                       stats |-> [correct |-> MaxAttempts - 2, wrong |-> 0, recent |-> recent],
                       custom_vocab |-> <<>>, conversation_history |-> <<>>]]>>]>>

LevelFiles ==
    {NoFile} \cup {FileOf(LevelDoc(level, recent)) : level \in MinLevel..MaxLevel, recent \in LevelRecents}

\* the two seed prompts drawn here: "hola" answers the first and not the second
LevelPrompts == {SEED.es[1].native, SEED.es[2].native}

\* the attempts alice has made, as her stats count them
Attempts ==
    IF Has(Users(global_data), "alice")
    THEN Lookup(Users(global_data), "alice").stats.correct + Lookup(Users(global_data), "alice").stats.wrong
    ELSE 0

InitLevel ==
    /\ file \in LevelFiles
    /\ loaded = FALSE
    /\ global_data = EmptyStore
    /\ current_user = NoUser
    /\ mode = "Chat"
    /\ uploaded = <<>>
    /\ last = [n |-> 0, op |-> "none", ok |-> TRUE, pre |-> EmptyStore, preFile |-> file,
               writes |-> <<>>, submit |-> NoSubmit, attempt |-> NoAttempt, merge |-> NoMerge]
    /\ reader = <<>>

SignIn == current_user = NoUser /\ LoadUser("alice")

Attempt == Attempts < MaxAttempts /\ Practice(Hola, LevelPrompts)

NextLevel == FirstRun \/ SignIn \/ Attempt

SpecLevel == InitLevel /\ [][NextLevel]_vars

\* the record of the signed-in user in the store
Learner == Lookup(Users(global_data), current_user)

\* C4: the level of a user created by sign-in is, after any sequence of scored
\* attempts, an integer from 1 to 5, in the store and in the file.
C4_LevelInRange ==
    /\ \A i \in 1..Len(Users(global_data)) :
          Users(global_data)[i].v.level \in MinLevel..MaxLevel
    /\ file.exists =>
          \A i \in 1..Len(Users(file.doc)) : Users(file.doc)[i].v.level \in MinLevel..MaxLevel

\* C4's case: alice, signed in on an empty store, has answered ten prompts; the
\* last one found her at level 5 with a rate of 0.8 or more and left her there
C4_Witness ==
    /\ last.attempt # NoAttempt /\ last.ok
    /\ last.n = MaxAttempts + 2
    /\ Learner.stats.correct = MaxAttempts
    /\ last.attempt[1].level = MaxLevel
    /\ 5 * Sum(Learner.stats.recent) >= 4 * Len(Learner.stats.recent)
    /\ Learner.level = MaxLevel

\* the outcome of the attempt the run scored: 1 for a ratio of 0.65 or more
Outcome(a) == IF 20 * fuzzy_ratio(a.text, a.item.target)[1] >= 13 * fuzzy_ratio(a.text, a.item.target)[2] THEN 1 ELSE 0

\* the list the level is decided on: the outcome appended, the last 20 kept
Decisive(a) ==
    LET all == a.recent \o <<Outcome(a)>>
    IN  IF Len(all) <= 20 THEN all ELSE [i \in 1..20 |-> all[Len(all) - 20 + i]]

Count(lst, bit) == Cardinality({i \in 1..Len(lst) : lst[i] = bit})

\* C5: one scored attempt moves the level by at most one, decided on the list
\* after the attempt: with six or more elements, up by one at a rate of 0.8 or
\* more below level 5, else down by one at a rate of 0.5 or less above level 1,
\* else unchanged; six 1s at level 3 and a correct answer give 4, six 0s at
\* level 3 and a wrong answer give 2.
C5_OneStepByThresholds ==
    (last.attempt # NoAttempt /\ last.ok) =>
       LET a == last.attempt[1]
           d == Decisive(a)
           ones == Count(d, 1)
           up == Len(d) >= 6 /\ 10 * ones >= 8 * Len(d) /\ a.level < 5
           down == ~up /\ Len(d) >= 6 /\ 10 * ones <= 5 * Len(d) /\ a.level > 1
       IN  /\ Learner.stats.recent = d
           /\ up => Learner.level = a.level + 1
           /\ down => Learner.level = a.level - 1
           /\ (~up /\ ~down) => Learner.level = a.level
           /\ (a.recent = Ones(6) /\ a.level = 3 /\ Outcome(a) = 1) => Learner.level = 4
           /\ (a.recent = Zeros(6) /\ a.level = 3 /\ Outcome(a) = 0) => Learner.level = 2

\* C5's case: twenty outcomes, the oldest a 0, at a rate of 0.75; a correct
\* answer pushes the 0 out, the rate is 0.8 and the level goes from 3 to 4
C5_Witness ==
    /\ last.attempt # NoAttempt /\ last.ok
    /\ Len(last.attempt[1].recent) = 20
    /\ last.attempt[1].recent[1] = 0
    /\ Outcome(last.attempt[1]) = 1
    /\ last.attempt[1].level = 3
    /\ Learner.level = 4
    /\ Count(Learner.stats.recent, 1) = 16

\* the history the file holds for a user, and the one the run started with
SavedHistory(uname) == Lookup(Users(file.doc), uname).conversation_history
EarlierHistory(uname) ==
    IF Has(Users(last.pre), uname)
    THEN Get(Lookup(Users(last.pre), uname), "conversation_history", <<>>)
    ELSE <<>>

\* the entry of the attempt a: its answer, its target and its rounded score
EntryOf(turn, a) ==
    /\ turn.your = a.text
    /\ turn.target = a.item.target
    /\ turn.score = <<Round2(fuzzy_ratio(a.text, a.item.target))>>

\* C12: after the save that ends a scored attempt, the history the file holds
\* for the user has an entry with the attempt's answer, target and rounded
\* score, whenever the history before the attempt had fewer than 500 entries,
\* also when an earlier attempt gave the same answer to another target.
C12_AttemptRecorded ==
    (last.attempt # NoAttempt /\ last.ok /\ Len(EarlierHistory(last.attempt[1].user)) < HistoryKeep) =>
       \E i \in 1..Len(SavedHistory(last.attempt[1].user)) :
          EntryOf(SavedHistory(last.attempt[1].user)[i], last.attempt[1])

(***************************************************************************)
(* save_global step by step, with a reader of the file beside it: another  *)
(* session's load_global, or the Admin view's read for the download        *)
(***************************************************************************)
MaxSaves == 2
MaxReads == 2

\* the stores the writer saves
ConcStores == {EmptyStore, SavedDoc, LevelDoc(1, Ones(6)), LevelDoc(2, Zeros(6))}

InitConc ==
    /\ file \in {NoFile, FileOf(SavedDoc)}
    /\ loaded = TRUE
    /\ global_data = EmptyStore
    /\ current_user = NoUser
    /\ mode = "Chat"
    /\ uploaded = <<>>
    /\ last = [n |-> 0, op |-> "idle", ok |-> TRUE, pre |-> EmptyStore, preFile |-> file,
               writes |-> <<>>, submit |-> NoSubmit, attempt |-> NoAttempt, merge |-> NoMerge]
    /\ reader = <<>>

\* lines 95-96: deduplicate_global, then open(GLOBAL_FILE, "w"), which leaves
\* the file there and empty
SaveOpen(g) ==
    /\ last.op = "idle" /\ last.n < MaxSaves
    /\ LET open(r) ==
               /\ r.ok
               /\ global_data' = r.data
               /\ file' = [exists |-> TRUE, doc |-> r.data, written |-> "none"]
       IN  open(deduplicate_global(g))
    /\ last' = [last EXCEPT !.n = @ + 1, !.op = "dump", !.pre = g, !.preFile = file]
    /\ UNCHANGED <<loaded, current_user, mode, uploaded, reader>>

\* line 97: json.dump writes the text piece by piece; a part of it reaches the
\* file when the buffer is flushed before the end
SaveFlush ==
    /\ last.op = "dump" /\ file.written = "none"
    /\ file' = [file EXCEPT !.written = "part"]
    /\ UNCHANGED <<loaded, global_data, current_user, mode, uploaded, last, reader>>

\* the end of the with block: the rest of the text is written, the file closed
SaveClose ==
    /\ last.op = "dump"
    /\ file' = [file EXCEPT !.written = "all"]
    /\ last' = [last EXCEPT !.op = "idle", !.writes = Append(@, file.doc)]
    /\ UNCHANGED <<loaded, global_data, current_user, mode, uploaded, reader>>

\* what a read finds, with the file as it was before the save in progress and
\* as it is after it (both the file itself when no save is in progress)
Seen(by, got) ==
    [by |-> by, got |-> got,
     old |-> IF last.op = "dump" THEN last.preFile ELSE file,
     new |-> IF last.op = "dump" THEN FileOf(file.doc) ELSE file]

\* lines 80-91, in another session
ReadLoad ==
    /\ Len(reader) < MaxReads
    /\ reader' = Append(reader, Seen("load_global", load_global(file)))
    /\ UNCHANGED <<file, loaded, global_data, current_user, mode, uploaded, last>>

\* lines 422-425: f.read() for the download button gives the text in the file
ReadDownload ==
    /\ Len(reader) < MaxReads
    /\ file.exists
    /\ reader' = Append(reader, Seen("download", file))
    /\ UNCHANGED <<file, loaded, global_data, current_user, mode, uploaded, last>>

NextConc ==
    \/ \E g \in ConcStores : SaveOpen(g)
    \/ SaveFlush
    \/ SaveClose
    \/ ReadLoad
    \/ ReadDownload

SpecConc == InitConc /\ [][NextConc]_vars

\* what a reader gets from a file that is not being written
Whole(by, f) == IF by = "load_global" THEN load_global(f) ELSE f

\* C10: a reader running at any point of a save sees the complete previous
\* document or the complete new one, never an empty or partly written one.
C10_ReadersSeeCompleteDocument ==
    \A i \in 1..Len(reader) :
       reader[i].got \in {Whole(reader[i].by, reader[i].old), Whole(reader[i].by, reader[i].new)}

(***************************************************************************)
(* load_global as a function of the backing file: the file is whatever is  *)
(* in place when a session starts, written by the program or by another    *)
(* hand.                                                                   *)
(***************************************************************************)
MaxLoads == 2

Alice == <<"a","l","i","c","e">>

\* The files, as a list: values of different Python types are never put in one
\* set.  The documents of a list and of a str file:
LoadLists ==
    <<<<>>, <<[str |-> UsersStr]>>, <<[str |-> Alice]>>, <<[num |-> 1]>>,
      <<[num |-> 1], [str |-> UsersStr]>>>>
LoadStrs == <<<<>>, UsersStr, Alice, <<"m","y"," ">> \o UsersStr, <<"u","s","e","r">>>>

\* a value under "users" that is no dict
NotMapping == <<"int", "list", "NoneType", "str">>

LoadFiles ==
    <<NoFile, FileOf(SavedDoc), FileOf(EmptyStore), FileOf(<<>>), FileOf(Users(SavedDoc)),
      FileOf(DocLegacy), FileOf(DocBad),
      [exists |-> TRUE, doc |-> SavedDoc, written |-> "none"],
      [exists |-> TRUE, doc |-> SavedDoc, written |-> "part"]>>
    \o [i \in 1..Len(NotMapping) |->
          FileJson("dict", <<[k |-> "users", v |-> [notdict |-> NotMapping[i]]]>>, NotMapping[i])]
    \o [i \in 1..Len(LoadLists) |-> FileJson("list", LoadLists[i], "none")]
    \o [i \in 1..Len(LoadStrs) |-> FileJson("str", LoadStrs[i], "none")]
    \o <<FileJson("int", 5, "none"), FileJson("bool", TRUE, "none"),
         FileJson("NoneType", NoneAtom, "none")>>

NoLoad == <<>>

InitLoad ==
    /\ \E i \in 1..Len(LoadFiles) : file = LoadFiles[i]
    /\ loaded = FALSE
    /\ global_data = EmptyStore
    /\ current_user = NoUser
    /\ mode = "Chat"
    /\ uploaded = <<>>
    /\ last = [n |-> 0, op |-> "none", load |-> NoLoad]
    /\ reader = <<>>

\* lines 215-216: a session without global_data calls load_global()
LoadStore ==
    /\ ~loaded
    /\ last.n < MaxLoads
    /\ LET got(r) ==
               /\ loaded' = (r.exc = "none")
               /\ global_data' = IF r.exc = "none" THEN r.data ELSE global_data
               /\ last' = [n |-> last.n + 1, op |-> "LoadStore",
                           load |-> <<[file |-> file, out |-> r]>>]
       IN  got(load_call(file))
    /\ UNCHANGED <<file, current_user, mode, uploaded, reader>>

\* a new session starts with an empty session_state, over the file then in place
NewSession(f) ==
    /\ loaded
    /\ loaded' = FALSE
    /\ global_data' = EmptyStore
    /\ file' = f
    /\ last' = [last EXCEPT !.op = "NewSession"]
    /\ UNCHANGED <<current_user, mode, uploaded, reader>>

NextLoad ==
    \/ LoadStore
    \/ \E i \in 1..Len(LoadFiles) : NewSession(LoadFiles[i])

SpecLoad == InitLoad /\ [][NextLoad]_vars

\* the parsed document has a "users" key
HasUsersKey(f) == json_type(f) = "dict" /\ Has(f.doc, "users")

\* a value of shape {users: mapping}
IsStore(out) == out.type = "dict" /\ out.users = "dict"

\* the call returned the dict data, whose "users" value is of the type users
Gave(out, data, users) == out.type = "dict" /\ out.users = users /\ out.data = data

\* C11: load_global never raises and always returns a store {users: mapping}:
\* the empty store when the file is absent or cannot be parsed, the parsed
\* document itself when it has a "users" key, and otherwise the store whose
\* "users" value is the whole parsed document.
C11_LoadReturnsStore ==
    \A i \in 1..Len(last.load) :
       LET f == last.load[i].file
           out == last.load[i].out
       IN  /\ out.exc = "none"
           /\ IsStore(out)
           /\ (~f.exists \/ ~Parses(f)) => Gave(out, EmptyStore, "dict")
           /\ (Parses(f) /\ HasUsersKey(f)) => Gave(out, f.doc, users_type(f))
           /\ (Parses(f) /\ ~HasUsersKey(f)) =>
                 Gave(out, <<[k |-> "users", v |-> f.doc]>>, json_type(f))
====
